---- MODULE Spec2Model ----
(***************************************************************************)
(* Model of the apartment distribution application:                        *)
(*   - the engine of src/src/lib/distributionAlgorithm.ts (pure functions),*)
(*   - the Supabase store of the migration (agents, appartements,          *)
(*     historique_affectations),                                           *)
(*   - the handlers of AppartementsList, AssignmentHistory and AgentsList. *)
(*                                                                         *)
(* Numbers.  The source computes in JavaScript numbers.  For the scoring,   *)
(* the aggregation and the suggestion the model uses exact integer         *)
(* arithmetic: every score is carried in HALF-POINTS (twice the source's   *)
(* value), so that the weight 0.5 of the surface stays an integer.  HP(x)  *)
(* is x points written in half-points.  Unit attributes are integers, for  *)
(* which the source's arithmetic is exact as well.  A division by the      *)
(* roster size is never carried out: both sides of a comparison are        *)
(* multiplied by the divisor.  calculateEquilibreGlobal is modelled with   *)
(* rounding (see below).                                                   *)
(***************************************************************************)
EXTENDS Integers, Sequences, FiniteSets, TLC

NULL == "null"

HP(x) == 2 * x

Abs(x) == IF x < 0 THEN -x ELSE x

RECURSIVE SumSeq(_)
SumSeq(s) == IF s = <<>> THEN 0 ELSE Head(s) + SumSeq(Tail(s))

Range(s) == {s[i] : i \in 1..Len(s)}

(***************************************************************************)
(* Engine: src/src/lib/distributionAlgorithm.ts                            *)
(***************************************************************************)

\* calculateWorkloadScore, in half-points: chambres*10 + surface*0.5 +
\* distance_base*2 + difficulte*15.
calculateWorkloadScore(appartement) ==
    HP(appartement.nombre_chambres * 10)
    + appartement.surface
    + HP(appartement.distance_base * 2)
    + HP(appartement.difficulte * 15)

\* The zero-initialised summary calculateAgentScores sets for one agent.
ZeroScore(id) ==
    [agent_id |-> id, total_chambres |-> 0, total_surface |-> 0,
     total_distance |-> 0, total_difficulte |-> 0,
     nombre_appartements |-> 0, score_equilibre |-> 0]

\* First loop of calculateAgentScores: one zero summary per agent id
\* (Map.set: a repeated id keeps one entry).
InitScores(agents) == [id \in {agents[i].id : i \in 1..Len(agents)} |-> ZeroScore(id)]

\* AccumulateUnit without the increment of nombre_appartements.
AccumulateUnitNoCount(scores, appt) ==
    IF appt.agent_id # NULL /\ appt.agent_id \in DOMAIN scores
    THEN [scores EXCEPT ![appt.agent_id] =
            [@ EXCEPT !.total_chambres = @ + appt.nombre_chambres,
                      !.total_surface = @ + appt.surface,
                      !.total_distance = @ + appt.distance_base,
                      !.total_difficulte = @ + appt.difficulte,
                      !.score_equilibre = calculateWorkloadScore(appt)]]
    ELSE scores

\* The body of the second loop for one unit: the unit is added to the
\* summary of its agent when agent_id is truthy and a key of the map; the
\* balance score is overwritten by the unit's own score.
AccumulateUnit(scores, appt) ==
    IF appt.agent_id # NULL /\ appt.agent_id \in DOMAIN scores
    THEN [scores EXCEPT ![appt.agent_id] =
            [@ EXCEPT !.total_chambres = @ + appt.nombre_chambres,
                      !.total_surface = @ + appt.surface,
                      !.total_distance = @ + appt.distance_base,
                      !.total_difficulte = @ + appt.difficulte,
                      !.nombre_appartements = @ + 1,
                      !.score_equilibre = calculateWorkloadScore(appt)]]
    ELSE scores

RECURSIVE AccumulateAll(_, _)
AccumulateAll(scores, appartements) ==
    IF appartements = <<>> THEN scores
    ELSE AccumulateAll(AccumulateUnit(scores, Head(appartements)), Tail(appartements))

\* ScoreOfTotals with the weight 1 for the surface.
ScoreOfTotalsSurfaceOne(score) ==
    HP(score.total_chambres * 10)
    + HP(score.total_surface)
    + HP(score.total_distance * 2)
    + HP(score.total_difficulte * 15)

\* Third loop of calculateAgentScores: the balance score of the totals, with
\* the loop's own weights, in half-points.
ScoreOfTotals(score) ==
    HP(score.total_chambres * 10)
    + score.total_surface
    + HP(score.total_distance * 2)
    + HP(score.total_difficulte * 15)

\* calculateAgentScores without its third loop.
calculateAgentScoresNoFinalPass(agents, appartements) ==
    AccumulateAll(InitScores(agents), appartements)

calculateAgentScores(agents, appartements) ==
    LET acc == AccumulateAll(InitScores(agents), appartements)
    IN  [id \in DOMAIN acc |-> [acc[id] EXCEPT !.score_equilibre = ScoreOfTotals(acc[id])]]

\* currentScores.get(agent.id)?.score_equilibre || 0
AgentScoreOrZero(currentScores, id) ==
    IF id \in DOMAIN currentScores THEN currentScores[id].score_equilibre ELSE 0

RECURSIVE SumOver(_, _)
SumOver(f, S) ==
    IF S = {} THEN 0
    ELSE LET x == CHOOSE y \in S : TRUE IN f[x].score_equilibre + SumOver(f, S \ {x})

\* Array.from(currentScores.values()).reduce(sum + s.score_equilibre, 0):
\* the sum over EVERY entry of the map.
SumOfScores(currentScores) == SumOver(currentScores, DOMAIN currentScores)

\* scoreDiff of one agent, multiplied by agents.length:
\* |newScore - sum/n| * n = |n*newScore - sum|.
ScoreDiffTimesN(appartement, agents, currentScores, agent) ==
    LET apptScore == calculateWorkloadScore(appartement)
        agentScore == AgentScoreOrZero(currentScores, agent.id)
        secteurBonus == IF agent.secteur_preference = appartement.secteur THEN HP(-20) ELSE 0
        newScore == agentScore + apptScore + secteurBonus
    IN  Abs(Len(agents) * newScore - SumOfScores(currentScores))

\* lowestScoreDiff = Infinity: every scoreDiff is >= 0 and below it.
Infinity == -1

\* SuggestLoop with scoreDiff <= lowestScoreDiff: the last of equals wins.
RECURSIVE SuggestLoopLastWins(_, _, _, _, _)
SuggestLoopLastWins(appartement, agents, currentScores, i, best) ==
    IF i > Len(agents) THEN best[1]
    ELSE LET d == ScoreDiffTimesN(appartement, agents, currentScores, agents[i])
             better == best[2] = Infinity \/ d <= best[2]
         IN  SuggestLoopLastWins(appartement, agents, currentScores, i + 1,
                                 IF better THEN <<agents[i].id, d>> ELSE best)

\* The forEach of suggestOptimalAgent over agents[i..]: best is the pair
\* <<bestAgent, lowestScoreDiff>>.
RECURSIVE SuggestLoop(_, _, _, _, _)
SuggestLoop(appartement, agents, currentScores, i, best) ==
    IF i > Len(agents) THEN best[1]
    ELSE LET d == ScoreDiffTimesN(appartement, agents, currentScores, agents[i])
             better == best[2] = Infinity \/ d < best[2]
         IN  SuggestLoop(appartement, agents, currentScores, i + 1,
                         IF better THEN <<agents[i].id, d>> ELSE best)

\* suggestOptimalAgent with lowestScoreDiff starting at 0.
suggestOptimalAgentFromZero(appartement, agents, currentScores) ==
    IF Len(agents) = 0 THEN NULL
    ELSE SuggestLoop(appartement, agents, currentScores, 1, <<NULL, 0>>)

suggestOptimalAgent(appartement, agents, currentScores) ==
    IF Len(agents) = 0 THEN NULL
    ELSE SuggestLoop(appartement, agents, currentScores, 1, <<NULL, Infinity>>)

(***************************************************************************)
(* JavaScript numbers where rounding decides the result.                   *)
(* calculateEquilibreGlobal divides, squares and takes a square root, and  *)
(* its inputs are balance scores built from decimal(10,2) columns, so its  *)
(* result depends on the rounding of each operation.  A number is modelled *)
(* as a binary floating-point value [m, e] = m * 2^e, normalised           *)
(* (2^(SignificandBits-1) <= |m| < 2^SignificandBits, or m = 0 and e = 0), *)
(* and every operation returns the representable value nearest to the      *)
(* exact result, ties to the even significand, as IEEE 754 does.  The      *)
(* source's numbers carry 53 significand bits; the model carries           *)
(* SignificandBits of them and no bound on the exponent.                   *)
(***************************************************************************)

SignificandBits == 11

RECURSIVE Pow2(_)
Pow2(n) == IF n = 0 THEN 1 ELSE 2 * Pow2(n - 1)

FZero == [m |-> 0, e |-> 0]

\* The number nearest to (num / den) * 2^e, for num >= 0 and den > 0.
RECURSIVE RoundRat(_, _, _)
RoundRat(num, den, e) ==
    IF num = 0 THEN FZero
    ELSE IF num < den * Pow2(SignificandBits - 1) THEN RoundRat(2 * num, den, e - 1)
    ELSE IF num >= den * Pow2(SignificandBits) THEN RoundRat(num, 2 * den, e + 1)
    ELSE LET q == num \div den
             r == num % den
             up == 2 * r > den \/ (2 * r = den /\ q % 2 = 1)
             m == IF up THEN q + 1 ELSE q
         IN  IF m = Pow2(SignificandBits) THEN [m |-> Pow2(SignificandBits - 1), e |-> e + 1]
             ELSE [m |-> m, e |-> e]

FNeg(a) == [m |-> -a.m, e |-> a.e]

\* The number a literal or an integer denotes: num / den, rounded.
FNum(num, den) == IF num < 0 THEN FNeg(RoundRat(-num, den, 0)) ELSE RoundRat(num, den, 0)

\* a + b.  An operand more than SignificandBits + 1 binary places below the
\* other one is under a quarter of its last place and leaves it unchanged.
FAdd(a, b) ==
    IF a.m = 0 THEN b
    ELSE IF b.m = 0 THEN a
    ELSE IF a.e - b.e > SignificandBits + 1 THEN a
    ELSE IF b.e - a.e > SignificandBits + 1 THEN b
    ELSE LET e == IF a.e < b.e THEN a.e ELSE b.e
             s == a.m * Pow2(a.e - e) + b.m * Pow2(b.e - e)
         IN  IF s < 0 THEN FNeg(RoundRat(-s, 1, e)) ELSE RoundRat(s, 1, e)

FSub(a, b) == FAdd(a, FNeg(b))

FMul(a, b) ==
    LET p == a.m * b.m
    IN  IF p < 0 THEN FNeg(RoundRat(-p, 1, a.e + b.e)) ELSE RoundRat(p, 1, a.e + b.e)

\* a / b for b # 0.
FDiv(a, b) ==
    LET neg == (a.m < 0) # (b.m < 0)
        q == RoundRat(Abs(a.m), Abs(b.m), a.e - b.e)
    IN  IF neg THEN FNeg(q) ELSE q

\* a < b: the sign of a - b, which rounding does not change.
FLess(a, b) == FSub(a, b).m < 0

FMax(a, b) == IF FLess(a, b) THEN b ELSE a

\* The largest s in lo..hi with s * s <= x (lo * lo <= x).
RECURSIVE ISqrt(_, _, _)
ISqrt(x, lo, hi) ==
    IF lo = hi THEN lo
    ELSE LET mid == (lo + hi + 1) \div 2
         IN  IF mid * mid <= x THEN ISqrt(x, mid, hi) ELSE ISqrt(x, lo, mid - 1)

\* Math.sqrt(a) for a >= 0: the significand is scaled to an even exponent
\* and to twice the width, and the root of it is rounded (a tie cannot
\* happen: (s + 1/2)^2 is not an integer).
FSqrt(a) ==
    IF a.m = 0 THEN FZero
    ELSE LET k == IF (a.e - (SignificandBits - 1)) % 2 = 0 THEN SignificandBits - 1
                  ELSE SignificandBits
             x == a.m * Pow2(k)
             s == ISqrt(x, Pow2(SignificandBits - 1), Pow2(SignificandBits) - 1)
             m == IF x > s * s + s THEN s + 1 ELSE s
             e == (a.e - k) \div 2
         IN  IF m = Pow2(SignificandBits) THEN [m |-> Pow2(SignificandBits - 1), e |-> e + 1]
             ELSE [m |-> m, e |-> e]

RECURSIVE FSum(_)
FSum(values) ==
    IF values = <<>> THEN FZero
    ELSE FAdd(FSum(SubSeq(values, 1, Len(values) - 1)), values[Len(values)])

\* calculateEquilibreGlobal on scoreValues, the score_equilibre of the values
\* of the map in the order of the map.
calculateEquilibreGlobal(scoreValues) ==
    IF Len(scoreValues) = 0 THEN FZero
    ELSE LET n == FNum(Len(scoreValues), 1)
             avg == FDiv(FSum(scoreValues), n)
             squares == [i \in 1..Len(scoreValues) |->
                            FMul(FSub(scoreValues[i], avg), FSub(scoreValues[i], avg))]
             variance == FDiv(FSum(squares), n)
             stdDev == FSqrt(variance)
             coefficientOfVariation ==
                 IF FLess(FZero, avg) THEN FMul(FDiv(stdDev, avg), FNum(100, 1)) ELSE FZero
         IN  FMax(FZero, FSub(FNum(100, 1), coefficientOfVariation))

(***************************************************************************)
(* Routes.  The points of the model lie on the equator (latitude 0,        *)
(* longitude a whole number of degrees), where the haversine formula of    *)
(* calculateDistanceKm gives R * |dLng| * PI / 180: with latitude 0 on     *)
(* both sides, x = sin(dLng/2)^2 and c = |dLng| in radians.  Distances are *)
(* carried in metres.                                                      *)
(***************************************************************************)

\* R * PI / 180 for R = 6371 km, in metres per degree.
MetresPerDegree == 111195

calculateDistanceKm(a, b) == Abs(b.longitude - a.longitude) * MetresPerDegree

\* latitude and longitude of a unit are number | null: the model writes
\* <<x>> for the number x and <<>> for null.
NoNumber == <<>>

\* base and currentPoint are a point or null (base ?? null): <<p>> for the
\* point p and <<>> for null.
NoPoint == <<>>

\* appartements.filter(a => a.latitude !== null && a.longitude !== null)
Visitables(appartements) ==
    SelectSeq(appartements, LAMBDA a : a.latitude # NoNumber /\ a.longitude # NoNumber)

\* { latitude: appt.latitude!, longitude: appt.longitude! }
PointOf(appt) == [latitude |-> appt.latitude[1], longitude |-> appt.longitude[1]]

\* DistanceFrom measuring from the point (0, 0) while there is no current
\* point.
DistanceFromOrigin(currentPoint, appt) ==
    calculateDistanceKm(IF currentPoint # NoPoint THEN currentPoint[1]
                        ELSE [latitude |-> 0, longitude |-> 0],
                        PointOf(appt))

\* d of the forEach over remaining: 0 while there is no current point.
DistanceFrom(currentPoint, appt) ==
    IF currentPoint # NoPoint THEN calculateDistanceKm(currentPoint[1], PointOf(appt)) ELSE 0

\* BestLoop with d <= bestDistance: the last of the nearest units wins.
RECURSIVE BestLoopLastWins(_, _, _, _)
BestLoopLastWins(remaining, currentPoint, i, best) ==
    IF i > Len(remaining) THEN best[1]
    ELSE LET d == DistanceFrom(currentPoint, remaining[i])
         IN  BestLoopLastWins(remaining, currentPoint, i + 1,
                              IF best[2] = Infinity \/ d <= best[2] THEN <<i, d>> ELSE best)

\* remaining.forEach((appt, index) => ...) from index i on: best is the pair
\* <<bestIndex, bestDistance>>; bestDistance starts at Infinity.
RECURSIVE BestLoop(_, _, _, _)
BestLoop(remaining, currentPoint, i, best) ==
    IF i > Len(remaining) THEN best[1]
    ELSE LET d == DistanceFrom(currentPoint, remaining[i])
         IN  BestLoop(remaining, currentPoint, i + 1,
                      IF best[2] = Infinity \/ d < best[2] THEN <<i, d>> ELSE best)

\* remaining.splice(bestIndex, 1) leaving the first element out instead.
SpliceFirst(remaining, bestIndex) == Tail(remaining)

\* What remaining.splice(bestIndex, 1) leaves in remaining.
Splice(remaining, bestIndex) ==
    SubSeq(remaining, 1, bestIndex - 1) \o SubSeq(remaining, bestIndex + 1, Len(remaining))

\* while (remaining.length > 0): route is [totalDistance, etapes] so far.
RECURSIVE RouteLoop(_, _, _, _)
RouteLoop(remaining, currentPoint, ordre, route) ==
    IF Len(remaining) = 0 THEN route
    ELSE LET bestIndex == BestLoop(remaining, currentPoint, 1, <<1, Infinity>>)
             next == remaining[bestIndex]
             leg == DistanceFrom(currentPoint, next)
         IN  RouteLoop(Splice(remaining, bestIndex), <<PointOf(next)>>, ordre + 1,
                       [totalDistance |-> route.totalDistance + leg,
                        etapes |-> Append(route.etapes,
                                          [appartement |-> next, ordre |-> ordre,
                                           distanceDepuisPrecedent |-> leg])])

\* buildAgentRoute(agentId, appartements, base); base is NoPoint when omitted.
buildAgentRoute(agentId, appartements, base) ==
    LET visitables == Visitables(appartements)
        route == IF Len(visitables) = 0 THEN [totalDistance |-> 0, etapes |-> <<>>]
                 ELSE RouteLoop(visitables, base, 1, [totalDistance |-> 0, etapes |-> <<>>])
    IN  [agentId |-> agentId, totalDistance |-> route.totalDistance, etapes |-> route.etapes]

(***************************************************************************)
(* The universe of the system model.  Rows are keyed by id; the static     *)
(* columns of a row (everything but agent_id and statut) never change      *)
(* after the insert, so they are looked up by id.  Rosters and unit lists  *)
(* come back from the store ordered by nom (.order('nom')).                *)
(***************************************************************************)

AgentOrder == <<"a1", "a2">>

AgentIds == Range(AgentOrder)

AgentRow(id) ==
    [id |-> id, secteur_preference |-> IF id = "a1" THEN "nord" ELSE NULL]

\* The units in the order of the select (order by nom).
UnitOrder == <<"u1", "u2", "u3">>

\* The units the users of the system model create and assign.
UnitIds == {"u1", "u2"}

\* u1 carries the defaults of the creation form (newAppt); u2 is the unit of
\* the specification's scoring example; u3 has other attributes than u1 and
\* the same workload score (90).
UnitStatic(id) ==
    IF id = "u1"
    THEN [id |-> id, secteur |-> "nord", nombre_chambres |-> 1, surface |-> 50,
          distance_base |-> 5, difficulte |-> 3]
    ELSE IF id = "u2"
    THEN [id |-> id, secteur |-> "sud", nombre_chambres |-> 2, surface |-> 50,
          distance_base |-> 5, difficulte |-> 3]
    ELSE [id |-> id, secteur |-> "sud", nombre_chambres |-> 2, surface |-> 30,
          distance_base |-> 5, difficulte |-> 3]

\* A row of appartements as a select returns it.
AppartementRow(id, dyn) ==
    [id |-> id, secteur |-> UnitStatic(id).secteur,
     nombre_chambres |-> UnitStatic(id).nombre_chambres,
     surface |-> UnitStatic(id).surface,
     distance_base |-> UnitStatic(id).distance_base,
     difficulte |-> UnitStatic(id).difficulte,
     agent_id |-> dyn.agent_id, statut |-> dyn.statut]

\* Bounds of the system model: the number of history rows the store accepts
\* and the number of handlers the users start.
MaxHist == 3

MaxOps == 2

VARIABLES
    agentsTbl,        \* store: ids of the rows of agents
    appartementsTbl,  \* store: unit id -> [agent_id, statut], the rows of appartements
    historique,       \* store: the rows of historique_affectations
    nextHistId,       \* store: number of history rows inserted so far
    ops,              \* number of handlers started so far
    agents,           \* AppartementsList: the agents prop (roster)
    appartements,     \* AppartementsList: useState appartements
    scoreMap,         \* AppartementsList: useState scoreMap
    suggestions,      \* AppartementsList: useState suggestions
    loadPending,      \* AppartementsList: a loadAppartements nobody awaits is in flight
    isAutoAssigning,  \* AppartementsList: useState isAutoAssigning
    feedback,         \* AppartementsList: useState feedback (the message shown)
    assignPc,         \* handleAssignAgent in flight: the store call it waits for
    assignArg,        \* handleAssignAgent in flight: <<unit id, agentId>>
    batchPc,          \* handleAutoDistribute in flight: the store call it waits for
    assignments,      \* handleAutoDistribute: the pairing list
    batchIdx,         \* handleAutoDistribute: index of the pairing being committed
    successCount,     \* handleAutoDistribute: successCount
    encounteredError, \* handleAutoDistribute: encounteredError
    history,          \* AssignmentHistory: useState history
    markPc,           \* markAssignmentCompleted in flight: the store call it waits for
    markArg,          \* markAssignmentCompleted in flight: entry.appartement_id
    engine            \* the last call of an engine function: its arguments and result

storeVars == <<agentsTbl, appartementsTbl, historique, nextHistId>>

viewVars == <<agents, appartements, scoreMap, suggestions, loadPending, isAutoAssigning,
             feedback>>

assignVars == <<assignPc, assignArg>>

batchVars == <<batchPc, assignments, batchIdx, successCount, encounteredError>>

histVars == <<history, markPc, markArg>>

vars == <<storeVars, ops, viewVars, assignVars, batchVars, histVars, engine>>

(***************************************************************************)
(* The store (Supabase tables of the migration).                           *)
(***************************************************************************)

\* select * from agents order by nom
SelectAgents(tbl) == SelectSeq([i \in 1..Len(AgentOrder) |-> AgentRow(AgentOrder[i])],
                               LAMBDA r : r.id \in tbl)

\* select * from appartements order by nom
SelectAppartements(tbl) ==
    LET ids == SelectSeq(UnitOrder, LAMBDA u : u \in DOMAIN tbl)
    IN  [i \in 1..Len(ids) |-> AppartementRow(ids[i], tbl[ids[i]])]

\* A store without the foreign key of appartements.agent_id.
UpdateRejectedNever(tbl, agentId) == FALSE

\* update appartements set agent_id, statut where id = u is rejected when
\* agent_id references no row of agents (REFERENCES agents(id)).
UpdateRejected(tbl, agentId) == agentId # NULL /\ agentId \notin tbl

\* UpdateUnit writing agent_id and leaving statut as it is.
UpdateUnitKeepsStatut(tbl, u, agentId) ==
    IF u \in DOMAIN tbl THEN [tbl EXCEPT ![u].agent_id = agentId] ELSE tbl

\* update appartements set agent_id = agentId, statut = ... where id = u
\* (updateAssignment, first call).  No row with that id: nothing changes.
UpdateUnit(tbl, u, agentId) ==
    IF u \in DOMAIN tbl
    THEN [tbl EXCEPT ![u] = [agent_id |-> agentId,
                             statut |-> IF agentId # NULL THEN "assigne" ELSE "disponible"]]
    ELSE tbl

\* update historique_affectations set date_fin = now
\* where appartement_id = u and date_fin is null (updateAssignment, second call)
CloseOpen(hist, u) ==
    {IF r.appartement_id = u /\ r.date_fin = NULL THEN [r EXCEPT !.date_fin = "now"] ELSE r
       : r \in hist}

\* insert into historique_affectations is rejected when appartement_id or
\* agent_id references no row.
InsertRejected(units, agentTbl, u, agentId) == u \notin DOMAIN units \/ agentId \notin agentTbl

\* The row updateAssignment inserts (third call).
NewHistRow(id, u, agentId) ==
    [id |-> id, appartement_id |-> u, agent_id |-> agentId, date_fin |-> NULL,
     score_equilibre |-> calculateWorkloadScore(UnitStatic(u))]

\* update historique_affectations set date_fin = endDate where id = id
CloseById(hist, id) ==
    {IF r.id = id THEN [r EXCEPT !.date_fin = "now"] ELSE r : r \in hist}

\* delete from agents where id = a: appartements.agent_id ON DELETE SET NULL
DeleteAgentUnits(tbl, a) ==
    [u \in DOMAIN tbl |-> IF tbl[u].agent_id = a THEN [tbl[u] EXCEPT !.agent_id = NULL]
                          ELSE tbl[u]]

\* delete from agents where id = a: historique_affectations.agent_id ON DELETE CASCADE
DeleteAgentHist(hist, a) == {r \in hist : r.agent_id # a}

\* A handler is started while the budget of the model lasts.
StartOp == ops < MaxOps /\ ops' = ops + 1

(***************************************************************************)
(* updateAssignment(appartement, agentId): three store calls, each awaited. *)
(* Every store call either takes effect or returns an error.  Only the     *)
(* result of the first one is looked at.                                   *)
(***************************************************************************)

\* First call, success: the unit row is written.
UpdateOk(u, agentId) ==
    /\ ~UpdateRejected(agentsTbl, agentId)
    /\ appartementsTbl' = UpdateUnit(appartementsTbl, u, agentId)
    /\ UNCHANGED <<agentsTbl, historique, nextHistId>>

\* First call, error (rejected by the foreign key, or any other failure of
\* the call): nothing is written and updateAssignment returns failure.
UpdateFails == UNCHANGED storeVars

\* Second call: the open records of the unit are closed, or the call fails
\* and the error is dropped.
CloseCall(u) ==
    \/ /\ historique' = CloseOpen(historique, u)
       /\ UNCHANGED <<agentsTbl, appartementsTbl, nextHistId>>
    \/ UNCHANGED storeVars

\* Third call: a record is opened, or the call fails and the error is dropped.
InsertCall(u, agentId) ==
    \/ /\ ~InsertRejected(appartementsTbl, agentsTbl, u, agentId)
       /\ nextHistId < MaxHist
       /\ historique' = historique \cup {NewHistRow(nextHistId + 1, u, agentId)}
       /\ nextHistId' = nextHistId + 1
       /\ UNCHANGED <<agentsTbl, appartementsTbl>>
    \/ UNCHANGED storeVars

(***************************************************************************)
(* AppartementsList                                                        *)
(***************************************************************************)

\* loadAppartements, the branch !error && data: the three states it sets.
LoadedScores(roster, data) ==
    calculateAgentScores(roster, SelectSeq(data, LAMBDA appt : appt.agent_id # NULL))

LoadedSuggestions(roster, data, scores) ==
    [id \in {data[i].id : i \in 1..Len(data)} |->
        LET appt == CHOOSE a \in Range(data) : a.id = id
        IN  suggestOptimalAgent(appt, roster, scores)]

\* DistributionDashboard.loadData, the branch !error && data: the summaries
\* of the units selected with .eq('statut', 'assigne').
DashboardScores(roster, tbl) ==
    calculateAgentScores(roster,
        SelectSeq(SelectAppartements(tbl), LAMBDA appt : appt.statut = "assigne"))

\* loadAppartements: the select succeeds and the view follows the store, or
\* it fails and the view stays.
ReloadView ==
    \/ /\ appartements' = SelectAppartements(appartementsTbl)
       /\ scoreMap' = LoadedScores(agents, appartements')
       /\ suggestions' = LoadedSuggestions(agents, appartements', scoreMap')
    \/ UNCHANGED <<appartements, scoreMap, suggestions>>

\* loadAppartements started by the mount effect, by the effect on a new
\* agents prop, or by handleAddAppartement, which do not await it.
loadAppartements ==
    /\ loadPending
    /\ loadPending' = FALSE
    /\ ReloadView
    /\ UNCHANGED <<engine, storeVars, ops, agents, isAutoAssigning, feedback,
                   assignVars, batchVars, histVars>>

\* The parent hands a new agents prop (the roster it selected from the
\* store); the effect on loadAppartements starts a reload.
RefreshAgents ==
    /\ agents' = SelectAgents(agentsTbl)
    /\ agents' # agents
    /\ loadPending' = TRUE
    /\ UNCHANGED <<engine, storeVars, ops, appartements, scoreMap, suggestions,
                   isAutoAssigning, feedback, assignVars, batchVars, histVars>>

\* The 4 s timer of the feedback effect.
ClearFeedback ==
    /\ feedback # NULL
    /\ feedback' = NULL
    /\ UNCHANGED <<engine, storeVars, ops, agents, appartements, scoreMap, suggestions,
                   loadPending, isAutoAssigning, assignVars, batchVars, histVars>>

\* handleAddAppartement: insert of a unit with the form's values; statut and
\* agent_id take the column defaults; loadAppartements is started.  An insert
\* that fails changes nothing.
handleAddAppartement(u) ==
    /\ StartOp
    /\ u \notin DOMAIN appartementsTbl
    /\ appartementsTbl' = [x \in DOMAIN appartementsTbl \cup {u} |->
                             IF x = u THEN [agent_id |-> NULL, statut |-> "disponible"]
                             ELSE appartementsTbl[x]]
    /\ loadPending' = TRUE
    /\ UNCHANGED <<engine, agentsTbl, historique, nextHistId, agents, appartements, scoreMap,
                   suggestions, isAutoAssigning, feedback, assignVars, batchVars,
                   histVars>>

(***************************************************************************)
(* handleAssignAgent(appartementId, agentId)                               *)
(***************************************************************************)

\* The select of a listed unit is changed to an agent of the roster or to
\* "Non assigne"; the unit is found in the view and the first store call of
\* updateAssignment is made.
handleAssignAgent(u, agentId) ==
    /\ StartOp
    /\ assignPc = "idle"
    /\ \E i \in 1..Len(appartements) : appartements[i].id = u
    /\ agentId = NULL \/ \E i \in 1..Len(agents) : agents[i].id = agentId
    /\ \/ /\ UpdateOk(u, agentId)
          /\ assignPc' = "close"
          /\ assignArg' = <<u, agentId>>
          /\ UNCHANGED feedback
       \/ /\ UpdateFails
          /\ feedback' = "assignError"
          /\ UNCHANGED assignVars
    /\ UNCHANGED <<engine, agents, appartements, scoreMap, suggestions, loadPending,
                   isAutoAssigning, batchVars, histVars>>

AssignClose ==
    /\ assignPc = "close"
    /\ CloseCall(assignArg[1])
    /\ assignPc' = IF assignArg[2] # NULL THEN "insert" ELSE "reload"
    /\ UNCHANGED <<engine, ops, assignArg, viewVars, batchVars, histVars>>

AssignInsert ==
    /\ assignPc = "insert"
    /\ InsertCall(assignArg[1], assignArg[2])
    /\ assignPc' = "reload"
    /\ UNCHANGED <<engine, ops, assignArg, viewVars, batchVars, histVars>>

\* await loadAppartements(); the success message.
AssignReload ==
    /\ assignPc = "reload"
    /\ ReloadView
    /\ feedback' = "assignSuccess"
    /\ assignPc' = "idle"
    /\ assignArg' = <<NULL, NULL>>
    /\ UNCHANGED <<engine, storeVars, ops, agents, loadPending, isAutoAssigning, batchVars,
                   histVars>>

(***************************************************************************)
(* handleAutoDistribute                                                    *)
(***************************************************************************)

\* Unassigned without the test of statut.
UnassignedAnyStatut(list) == SelectSeq(list, LAMBDA appt : appt.agent_id = NULL)

\* appartements.filter(appt => !appt.agent_id && appt.statut !== 'inactif')
Unassigned(list) == SelectSeq(list, LAMBDA appt : appt.agent_id = NULL /\ appt.statut # "inactif")

\* InsertDesc placing x before the elements of its own score.
RECURSIVE InsertDescBeforeEquals(_, _)
InsertDescBeforeEquals(sorted, x) ==
    IF sorted = <<>> THEN <<x>>
    ELSE IF calculateWorkloadScore(Head(sorted)) > calculateWorkloadScore(x)
         THEN <<Head(sorted)>> \o InsertDescBeforeEquals(Tail(sorted), x)
         ELSE <<x>> \o sorted

\* Insertion of x into a list sorted by descending score, after every
\* element whose score is not below its own (Array.prototype.sort is stable).
RECURSIVE InsertDesc(_, _)
InsertDesc(sorted, x) ==
    IF sorted = <<>> THEN <<x>>
    ELSE IF calculateWorkloadScore(Head(sorted)) >= calculateWorkloadScore(x)
         THEN <<Head(sorted)>> \o InsertDesc(Tail(sorted), x)
         ELSE <<x>> \o sorted

\* [...unassigned].sort((a, b) => calculateWorkloadScore(b) - calculateWorkloadScore(a))
RECURSIVE SortDesc(_)
SortDesc(list) ==
    IF list = <<>> THEN <<>>
    ELSE InsertDesc(SortDesc(SubSeq(list, 1, Len(list) - 1)), list[Len(list)])

\* The update of the simulated summary of the chosen agent, when the map has
\* one: the unit is added to the totals and the balance score is recomputed
\* with the literal weights 10, 0.5, 2, 15 (in half-points).
SimulateAdd(currentScores, agentId, appartement) ==
    IF agentId \in DOMAIN currentScores
    THEN LET score == currentScores[agentId]
             chambres == score.total_chambres + appartement.nombre_chambres
             surface == score.total_surface + appartement.surface
             distance == score.total_distance + appartement.distance_base
             difficulte == score.total_difficulte + appartement.difficulte
         IN  [currentScores EXCEPT ![agentId] =
                [agent_id |-> score.agent_id,
                 total_chambres |-> chambres,
                 total_surface |-> surface,
                 total_distance |-> distance,
                 total_difficulte |-> difficulte,
                 nombre_appartements |-> score.nombre_appartements + 1,
                 score_equilibre |-> HP(chambres * 10) + surface + HP(distance * 2)
                                     + HP(difficulte * 15)]]
    ELSE currentScores

\* sorted.forEach(...): st = [assignments, currentScores] after the units
\* sorted[i..] have been considered.
RECURSIVE SimulateLoop(_, _, _, _)
SimulateLoop(sorted, roster, i, st) ==
    IF i > Len(sorted) THEN st
    ELSE LET appartement == sorted[i]
             agentId == suggestOptimalAgent(appartement, roster, st.currentScores)
         IN  SimulateLoop(sorted, roster, i + 1,
                IF agentId = NULL THEN st
                ELSE [assignments |-> Append(st.assignments,
                                             [appartement |-> appartement, agentId |-> agentId]),
                      currentScores |-> SimulateAdd(st.currentScores, agentId, appartement)])

\* Simulate considering the first unit of the sorted list only.
SimulateHeadOnly(list, roster, scores) ==
    SimulateLoop(SubSeq(SortDesc(Unassigned(list)), 1, 1), roster, 1,
                 [assignments |-> <<>>, currentScores |-> scores])

\* const currentScores = new Map(scoreMap) copies the entries of the map,
\* not the summaries they point to: currentScores and scoreMap hold the same
\* objects, and the simulation writes into them.  The result gives the
\* pairing list and the summaries as they stand after the loop, which are
\* the summaries of scoreMap as well.
Simulate(list, roster, scores) ==
    SimulateLoop(SortDesc(Unassigned(list)), roster, 1,
                 [assignments |-> <<>>, currentScores |-> scores])

\* NoAgents never answering that the roster is empty.
NoAgentsUnchecked(roster) == FALSE

\* The roster check of handleAutoDistribute.
NoAgents(roster) == Len(roster) = 0

\* handleAutoDistribute from the click to its first await (or to its return).
handleAutoDistribute ==
    /\ StartOp
    /\ ~isAutoAssigning
    /\ batchPc = "idle"
    /\ IF NoAgents(agents)
       THEN /\ feedback' = "noAgents"
            /\ UNCHANGED <<scoreMap, isAutoAssigning, batchVars>>
       ELSE IF Len(Unassigned(appartements)) = 0
       THEN /\ feedback' = "nothingToAssign"
            /\ UNCHANGED <<scoreMap, isAutoAssigning, batchVars>>
       ELSE LET sim == Simulate(appartements, agents, scoreMap)
            IN  /\ scoreMap' = sim.currentScores
                /\ IF Len(sim.assignments) = 0
                   THEN /\ feedback' = "noOptimal"
                        /\ isAutoAssigning' = FALSE
                        /\ UNCHANGED batchVars
                   ELSE /\ feedback' = NULL
                        /\ isAutoAssigning' = TRUE
                        /\ assignments' = sim.assignments
                        /\ batchIdx' = 1
                        /\ successCount' = 0
                        /\ encounteredError' = FALSE
                        /\ batchPc' = "update"
    /\ UNCHANGED <<engine, storeVars, agents, appartements, suggestions, loadPending,
                   assignVars, histVars>>

\* BatchUpdate going on with the next pairing after a failure.
BatchUpdateContinues ==
    /\ batchPc = "update"
    /\ LET a == assignments[batchIdx]
       IN  \/ /\ UpdateOk(a.appartement.id, a.agentId)
              /\ batchPc' = "close"
              /\ UNCHANGED <<feedback, encounteredError, batchIdx>>
           \/ /\ UpdateFails
              /\ feedback' = "batchError"
              /\ encounteredError' = TRUE
              /\ IF batchIdx < Len(assignments)
                 THEN batchIdx' = batchIdx + 1 /\ batchPc' = "update"
                 ELSE batchIdx' = batchIdx /\ batchPc' = "reload"
    /\ UNCHANGED <<engine, ops, agents, appartements, scoreMap, suggestions, loadPending,
                   isAutoAssigning, assignments, successCount, assignVars,
                   histVars>>

\* for (const assignment of assignments): first store call of updateAssignment.
BatchUpdate ==
    /\ batchPc = "update"
    /\ LET a == assignments[batchIdx]
       IN  \/ /\ UpdateOk(a.appartement.id, a.agentId)
              /\ batchPc' = "close"
              /\ UNCHANGED <<feedback, encounteredError>>
           \/ /\ UpdateFails
              /\ feedback' = "batchError"
              /\ encounteredError' = TRUE
              /\ batchPc' = "reload"
    /\ UNCHANGED <<engine, ops, agents, appartements, scoreMap, suggestions, loadPending,
                   isAutoAssigning, assignments, batchIdx, successCount, assignVars,
                   histVars>>

BatchClose ==
    /\ batchPc = "close"
    /\ CloseCall(assignments[batchIdx].appartement.id)
    /\ batchPc' = "insert"
    /\ UNCHANGED <<engine, ops, viewVars, assignments, batchIdx, successCount, encounteredError,
                   assignVars, histVars>>

\* Third store call; updateAssignment returns success and the loop goes on.
BatchInsert ==
    /\ batchPc = "insert"
    /\ InsertCall(assignments[batchIdx].appartement.id, assignments[batchIdx].agentId)
    /\ successCount' = successCount + 1
    /\ IF batchIdx < Len(assignments)
       THEN batchIdx' = batchIdx + 1 /\ batchPc' = "update"
       ELSE batchIdx' = batchIdx /\ batchPc' = "reload"
    /\ UNCHANGED <<engine, ops, viewVars, assignments, encounteredError, assignVars, histVars>>

\* BatchReload without setIsAutoAssigning(false).
BatchReloadKeepsFlag ==
    /\ batchPc = "reload"
    /\ ReloadView
    /\ feedback' = IF ~encounteredError /\ successCount > 0 THEN "batchSuccess" ELSE feedback
    /\ batchPc' = "idle"
    /\ assignments' = <<>>
    /\ batchIdx' = 0
    /\ successCount' = 0
    /\ encounteredError' = FALSE
    /\ UNCHANGED <<engine, storeVars, ops, agents, loadPending, isAutoAssigning, assignVars,
                   histVars>>

\* await loadAppartements(); the success message; setIsAutoAssigning(false).
BatchReload ==
    /\ batchPc = "reload"
    /\ ReloadView
    /\ feedback' = IF ~encounteredError /\ successCount > 0 THEN "batchSuccess" ELSE feedback
    /\ isAutoAssigning' = FALSE
    /\ batchPc' = "idle"
    /\ assignments' = <<>>
    /\ batchIdx' = 0
    /\ successCount' = 0
    /\ encounteredError' = FALSE
    /\ UNCHANGED <<engine, storeVars, ops, agents, loadPending, assignVars, histVars>>

(***************************************************************************)
(* AssignmentHistory                                                       *)
(***************************************************************************)

\* loadHistory (mount, the refresh button, the end of
\* markAssignmentCompleted): the view follows the store.  A select that
\* fails leaves the list as it is.
loadHistory ==
    /\ history' = historique
    /\ history' # history
    /\ UNCHANGED <<engine, storeVars, ops, viewVars, assignVars, batchVars, markPc, markArg>>

\* markAssignmentCompleted(entry) on an entry of the view that is open in
\* the view, confirmed by the user: the record is closed by id; on an error
\* the handler returns.
markAssignmentCompleted(entry) ==
    /\ StartOp
    /\ markPc = "idle"
    /\ entry \in history
    /\ entry.date_fin = NULL
    /\ \/ /\ historique' = CloseById(historique, entry.id)
          /\ markPc' = "unit"
          /\ markArg' = entry.appartement_id
          /\ UNCHANGED <<agentsTbl, appartementsTbl, nextHistId>>
       \/ UNCHANGED <<storeVars, markPc, markArg>>
    /\ UNCHANGED <<engine, viewVars, assignVars, batchVars, history>>

\* Second store call of markAssignmentCompleted: the unit goes back to
\* 'disponible'; the result of the call is not looked at.
MarkUnit ==
    /\ markPc = "unit"
    /\ \/ /\ appartementsTbl' = UpdateUnit(appartementsTbl, markArg, NULL)
          /\ UNCHANGED <<agentsTbl, historique, nextHistId>>
       \/ UNCHANGED storeVars
    /\ markPc' = "idle"
    /\ markArg' = NULL
    /\ UNCHANGED <<engine, ops, viewVars, assignVars, batchVars, history>>

(***************************************************************************)
(* AgentsList                                                              *)
(***************************************************************************)

\* handleDeleteAgent(id): delete from agents where id = a, with the foreign
\* keys of the migration (SET NULL on appartements, CASCADE on the history).
handleDeleteAgent(a) ==
    /\ StartOp
    /\ a \in agentsTbl
    /\ agentsTbl' = agentsTbl \ {a}
    /\ appartementsTbl' = DeleteAgentUnits(appartementsTbl, a)
    /\ historique' = DeleteAgentHist(historique, a)
    /\ UNCHANGED <<engine, nextHistId, viewVars, assignVars, batchVars, histVars>>

(***************************************************************************)
(* The system                                                              *)
(***************************************************************************)

\* The components are mounted with their initial states and the mount effect
\* of AppartementsList has started loadAppartements; the store holds the
\* agents, unit u1 available, and unit u2 missing or inactive.
Init ==
    /\ agentsTbl = AgentIds
    /\ \E u2 \in {"absent", "inactif"} :
         appartementsTbl =
           [u \in (IF u2 = "absent" THEN {"u1"} ELSE UnitIds) |->
              [agent_id |-> NULL, statut |-> IF u = "u1" THEN "disponible" ELSE u2]]
    /\ historique = {}
    /\ nextHistId = 0
    /\ ops = 0
    /\ agents = <<>>
    /\ appartements = <<>>
    /\ scoreMap = <<>>
    /\ suggestions = <<>>
    /\ loadPending = TRUE
    /\ isAutoAssigning = FALSE
    /\ feedback = NULL
    /\ assignPc = "idle"
    /\ assignArg = <<NULL, NULL>>
    /\ batchPc = "idle"
    /\ assignments = <<>>
    /\ batchIdx = 0
    /\ successCount = 0
    /\ encounteredError = FALSE
    /\ history = {}
    /\ markPc = "idle"
    /\ markArg = NULL
    /\ engine = [fn |-> "none"]

Next ==
    \/ loadAppartements
    \/ RefreshAgents
    \/ ClearFeedback
    \/ \E u \in UnitIds : handleAddAppartement(u)
    \/ \E u \in UnitIds, a \in AgentIds \cup {NULL} : handleAssignAgent(u, a)
    \/ AssignClose
    \/ AssignInsert
    \/ AssignReload
    \/ handleAutoDistribute
    \/ BatchUpdate
    \/ BatchClose
    \/ BatchInsert
    \/ BatchReload
    \/ loadHistory
    \/ \E entry \in history : markAssignmentCompleted(entry)
    \/ MarkUnit
    \/ \E a \in AgentIds : handleDeleteAgent(a)

Spec == Init /\ [][Next]_vars

(***************************************************************************)
(* The batch alone, started from every state of the store and of the view  *)
(* of AppartementsList that the system can be in when the button is        *)
(* clicked: a store with any roster and any units (available, inactive,    *)
(* assigned with their open record, or left 'assigne' by the deletion of   *)
(* their agent), a view loaded from that store under any roster, and an    *)
(* agents prop that may have changed since the load.                       *)
(***************************************************************************)

\* The rows a unit can have in a store whose agents are tbl.
UnitRows(tbl) ==
    {[agent_id |-> NULL, statut |-> st] : st \in {"disponible", "inactif", "assigne"}}
    \cup {[agent_id |-> a, statut |-> "assigne"] : a \in tbl}

\* The open records of the assigned units of a table, numbered in unit order.
OpenRecords(tbl) ==
    LET ids == SelectSeq(UnitOrder, LAMBDA u : u \in DOMAIN tbl /\ tbl[u].agent_id # NULL)
    IN  {NewHistRow(i, ids[i], tbl[ids[i]].agent_id) : i \in 1..Len(ids)}

\* The sets of units of the stores the batch is started from: those of the
\* system model, and the two units of equal score together.
BatchUnitSets == SUBSET UnitIds \cup {{"u1", "u3"}}

InitBatch ==
    /\ agentsTbl \in SUBSET AgentIds
    /\ \E ids \in BatchUnitSets : appartementsTbl \in [ids -> UnitRows(agentsTbl)]
    /\ historique = OpenRecords(appartementsTbl)
    /\ nextHistId = Cardinality(historique)
    /\ ops = 0
    /\ \E prop \in SUBSET AgentIds : agents = SelectAgents(prop)
    /\ appartements = SelectAppartements(appartementsTbl)
    /\ \E loaded \in SUBSET AgentIds :
         /\ scoreMap = LoadedScores(SelectAgents(loaded), appartements)
         /\ suggestions = LoadedSuggestions(SelectAgents(loaded), appartements, scoreMap)
    /\ loadPending = FALSE
    /\ isAutoAssigning = FALSE
    /\ feedback = NULL
    /\ assignPc = "idle"
    /\ assignArg = <<NULL, NULL>>
    /\ batchPc = "idle"
    /\ assignments = <<>>
    /\ batchIdx = 0
    /\ successCount = 0
    /\ encounteredError = FALSE
    /\ history = {}
    /\ markPc = "idle"
    /\ markArg = NULL
    /\ engine = [fn |-> "none"]

NextBatch ==
    \/ handleAutoDistribute
    \/ BatchUpdate
    \/ BatchClose
    \/ BatchInsert
    \/ BatchReload

SpecBatch == InitBatch /\ [][NextBatch]_vars

(***************************************************************************)
(* The engine alone: each function of distributionAlgorithm.ts, and the    *)
(* simulation of handleAutoDistribute, applied once to inputs of the sets  *)
(* below.  engine holds the arguments of the call and its result.          *)
(***************************************************************************)

\* Bounds of the inputs: the largest value of a unit attribute, the number
\* of balance scores handed to calculateEquilibreGlobal, the number of units
\* handed to buildAgentRoute and the largest longitude of a point.
MaxAttr == 3

MaxScores == 3

MaxRouteUnits == 3

MaxLng == 2

\* Rosters: the agents of the store in any order, none, and the agents of
\* the store with a third agent a3.
Rosters ==
    {<<>>, <<AgentRow("a1")>>, <<AgentRow("a2")>>, <<AgentRow("a1"), AgentRow("a2")>>,
     <<AgentRow("a2"), AgentRow("a1")>>,
     <<AgentRow("a1"), AgentRow("a2"), AgentRow("a3")>>}

\* agent_id of a unit handed to the engine: none, an agent, or an id that is
\* in no roster.
AgentRefs == AgentIds \cup {NULL, "ghost"}

\* A unit list: the units ids of the store, in the order of the select, with
\* the agent_id and statut dyns gives each.
UnitListOf(ids, dyns) == [i \in 1..Len(ids) |-> AppartementRow(ids[i], dyns[i])]

\* Summaries maps: any keys among the agents, a3 and an id of no agent, any
\* balance score among 0, 90, 100 and 300 points.
SummaryMaps ==
    UNION {[keys -> {0, HP(90), HP(100), HP(300)}]
             : keys \in SUBSET (AgentIds \cup {"a3", "ghost"})}

SummaryMapOf(f) == [id \in DOMAIN f |-> [ZeroScore(id) EXCEPT !.score_equilibre = f[id]]]

\* Balance scores as numbers: 0, 80, 100 and 90.6 (one room, 50 m2, 5.3 km,
\* difficulty 3).
ScoreNumbers == {FZero, FNum(80, 1), FNum(100, 1), FNum(906, 10)}

\* Units with coordinates: latitude null or 0, longitude null or 0..MaxLng.
Coordinates == [latitude : {NoNumber, <<0>>}, longitude : {NoNumber} \cup {<<x>> : x \in 0..MaxLng}]

RouteUnit(i, c) == [id |-> i, latitude |-> c.latitude, longitude |-> c.longitude]

CallWorkloadScore ==
    /\ engine.fn = "none"
    /\ \E c \in 0..MaxAttr, s \in 0..MaxAttr, d \in 0..MaxAttr, f \in 1..MaxAttr :
         \E u \in {[id |-> "u", secteur |-> "nord", nombre_chambres |-> c, surface |-> s,
                    distance_base |-> d, difficulte |-> f, agent_id |-> NULL,
                    statut |-> "disponible"],
                   AppartementRow("u2", [agent_id |-> NULL, statut |-> "disponible"])} :
            engine' = [fn |-> "calculateWorkloadScore", appartement |-> u,
                       result |-> calculateWorkloadScore(u)]
    /\ UNCHANGED <<storeVars, ops, viewVars, assignVars, batchVars, histVars>>

CallAgentScores ==
    /\ engine.fn = "none"
    /\ \E roster \in Rosters, ids \in {<<>>, <<"u1">>, <<"u2">>, <<"u1", "u2">>} :
         \E dyns \in [1..Len(ids) -> [agent_id : AgentRefs, statut : {"assigne"}]] :
            LET list == UnitListOf(ids, dyns)
            IN  engine' = [fn |-> "calculateAgentScores", agents |-> roster,
                           appartements |-> list,
                           result |-> calculateAgentScores(roster, list)]
    /\ UNCHANGED <<storeVars, ops, viewVars, assignVars, batchVars, histVars>>

CallSuggest ==
    /\ engine.fn = "none"
    /\ \E u \in UnitIds, roster \in Rosters, f \in SummaryMaps :
         LET appt == AppartementRow(u, [agent_id |-> NULL, statut |-> "disponible"])
         IN  engine' = [fn |-> "suggestOptimalAgent", appartement |-> appt,
                        agents |-> roster, currentScores |-> SummaryMapOf(f),
                        sumOfScores |-> SumOfScores(SummaryMapOf(f)),
                        result |-> suggestOptimalAgent(appt, roster, SummaryMapOf(f))]
    /\ UNCHANGED <<storeVars, ops, viewVars, assignVars, batchVars, histVars>>

\* The simulation of handleAutoDistribute on a unit list, a roster and the
\* summaries calculateAgentScores gives for a roster and that list.
CallSimulate ==
    /\ engine.fn = "none"
    /\ \E roster \in Rosters, loaded \in Rosters, ids \in {<<"u1">>, <<"u2">>, <<"u1", "u2">>} :
         \E dyns \in [1..Len(ids) -> [agent_id : AgentIds \cup {NULL},
                                      statut : {"disponible", "assigne"}]] :
            LET list == UnitListOf(ids, dyns)
                scores == LoadedScores(loaded, list)
            IN  engine' = [fn |-> "simulate", agents |-> roster, appartements |-> list,
                           scoreMap |-> scores,
                           result |-> Simulate(list, roster, scores)]
    /\ UNCHANGED <<storeVars, ops, viewVars, assignVars, batchVars, histVars>>

CallEquilibreGlobal ==
    /\ engine.fn = "none"
    /\ \E n \in 0..MaxScores :
         \E scoreValues \in [1..n -> ScoreNumbers] :
            engine' = [fn |-> "calculateEquilibreGlobal", scoreValues |-> scoreValues,
                       result |-> calculateEquilibreGlobal(scoreValues)]
    /\ UNCHANGED <<storeVars, ops, viewVars, assignVars, batchVars, histVars>>

CallBuildRoute ==
    /\ engine.fn = "none"
    /\ \E n \in 0..MaxRouteUnits, base \in {NoPoint, <<[latitude |-> 0, longitude |-> 1]>>} :
         \E cs \in [1..n -> Coordinates] :
            LET list == [i \in 1..n |-> RouteUnit(i, cs[i])]
            IN  engine' = [fn |-> "buildAgentRoute", appartements |-> list, base |-> base,
                           result |-> buildAgentRoute("a1", list, base)]
    /\ UNCHANGED <<storeVars, ops, viewVars, assignVars, batchVars, histVars>>

InitFn == Init /\ DOMAIN appartementsTbl = UnitIds

NextFn ==
    \/ CallWorkloadScore
    \/ CallAgentScores
    \/ CallSuggest
    \/ CallSimulate
    \/ CallEquilibreGlobal
    \/ CallBuildRoute

SpecFn == InitFn /\ [][NextFn]_vars

(***************************************************************************)
(* Properties                                                              *)
(***************************************************************************)

\* C1: every pairing of the list handleAutoDistribute builds is a unit of
\* the snapshot it read, with no agent_id and a statut other than 'inactif',
\* and no unit is paired twice.
C1_PairsOnlyEligible ==
    \A i \in 1..Len(assignments) :
        /\ assignments[i].appartement \in Range(appartements)
        /\ assignments[i].appartement.agent_id = NULL
        /\ assignments[i].appartement.statut # "inactif"
        /\ \A j \in 1..Len(assignments) :
              assignments[j].appartement.id = assignments[i].appartement.id => j = i

\* A batch has paired a unit while the snapshot holds an inactive unit.
C1_Witness ==
    /\ Len(assignments) >= 1
    /\ \E i \in 1..Len(appartements) : appartements[i].statut = "inactif"

\* C2: a unit never has two history records whose date_fin is null.
C2_AtMostOneOpenRecord ==
    \A u \in UnitIds :
        Cardinality({r \in historique : r.appartement_id = u /\ r.date_fin = NULL}) <= 1

\* C3: a unit has statut 'assigne' exactly when its agent_id is set.
C3_AssigneIffAgent ==
    \A u \in DOMAIN appartementsTbl :
        appartementsTbl[u].statut = "assigne" <=> appartementsTbl[u].agent_id # NULL

\* C6: a click on the batch button with an empty roster shows the
\* empty-roster message and does nothing else: no store row, no summary, no
\* pairing changes and isAutoAssigning stays false.
C6_EmptyRosterFailsFirst ==
    [][(handleAutoDistribute /\ Len(agents) = 0) =>
          /\ feedback' = "noAgents"
          /\ isAutoAssigning' = FALSE
          /\ UNCHANGED <<storeVars, batchVars, appartements, scoreMap, suggestions>>]_vars

\* The batch button was clicked with an empty roster while a unit was
\* eligible.
C6_Witness ==
    /\ Len(agents) = 0
    /\ Len(Unassigned(appartements)) > 0
    /\ feedback = "noAgents"
    /\ ops > 0

\* C10: the batch leaves the summaries of scoreMap as they were.
C10_BatchLeavesScoreMap == [][handleAutoDistribute => scoreMap' = scoreMap]_vars

\* C4: suggestOptimalAgent returns null exactly when the roster is empty, and
\* otherwise the id of an agent of the roster, whatever the unit and the
\* summaries map (keys of no agent and missing keys included).
C4_NullIffEmptyRoster ==
    engine.fn = "suggestOptimalAgent" =>
        /\ engine.result = NULL <=> Len(engine.agents) = 0
        /\ Len(engine.agents) > 0 =>
              engine.result \in {engine.agents[i].id : i \in 1..Len(engine.agents)}

\* An agent was suggested from a roster of two under a map that holds a key
\* of no agent and lacks the key of an agent.
C4_Witness ==
    /\ engine.fn = "suggestOptimalAgent"
    /\ Len(engine.agents) = 2
    /\ "ghost" \in DOMAIN engine.currentScores
    /\ "a1" \notin DOMAIN engine.currentScores
    /\ engine.result \in AgentIds

RECURSIVE SumCounts(_, _)
SumCounts(scores, ids) ==
    IF ids = {} THEN 0
    ELSE LET id == CHOOSE x \in ids : TRUE
         IN  scores[id].nombre_appartements + SumCounts(scores, ids \ {id})

\* C5: calculateAgentScores returns one summary per agent of the roster; the
\* counts of the summaries add up to the number of units whose agent_id is
\* an agent of the roster; the units with a null or unknown agent_id change
\* nothing.
C5_OneSummaryPerAgent ==
    engine.fn = "calculateAgentScores" =>
        LET ids == {engine.agents[i].id : i \in 1..Len(engine.agents)}
            known == SelectSeq(engine.appartements, LAMBDA appt : appt.agent_id \in ids)
        IN  /\ DOMAIN engine.result = ids
            /\ \A id \in ids : engine.result[id].agent_id = id
            /\ SumCounts(engine.result, ids) = Len(known)
            /\ engine.result = calculateAgentScores(engine.agents, known)

\* Two agents were summarised over a unit of one of them and a unit whose
\* agent_id is the id of no agent.
C5_Witness ==
    /\ engine.fn = "calculateAgentScores"
    /\ Len(engine.agents) = 2
    /\ Len(engine.appartements) = 2
    /\ engine.appartements[1].agent_id = "a2"
    /\ engine.appartements[2].agent_id = "ghost"
    /\ engine.result["a2"].nombre_appartements = 1

\* C7: calculateEquilibreGlobal returns exactly 0 for no score, exactly 100
\* for scores that are all equal and positive, a value of 0..100 for scores
\* that are not negative, 0 for the scores 100 and 0, and 100 for the scores
\* 80 and 80.
C7_EquilibreGlobalExact ==
    engine.fn = "calculateEquilibreGlobal" =>
        LET v == engine.scoreValues
            hundred == FNum(100, 1)
        IN  /\ Len(v) = 0 => engine.result = FZero
            /\ (Len(v) > 0 /\ FLess(FZero, v[1]) /\ \A i \in 1..Len(v) : v[i] = v[1])
                  => engine.result = hundred
            /\ (\A i \in 1..Len(v) : ~FLess(v[i], FZero))
                  => ~FLess(engine.result, FZero) /\ ~FLess(hundred, engine.result)
            /\ v = <<hundred, FZero>> => engine.result = FZero
            /\ v = <<FNum(80, 1), FNum(80, 1)>> => engine.result = hundred

\* C8: the route of buildAgentRoute holds each unit that has both
\* coordinates once and no other unit, numbers its steps 1..n in order, and
\* its totalDistance is the sum of the distanceDepuisPrecedent of the steps.
C8_RouteCoversVisitables ==
    engine.fn = "buildAgentRoute" =>
        LET input == engine.appartements
            etapes == engine.result.etapes
            both == {i \in 1..Len(input) :
                        input[i].latitude # NoNumber /\ input[i].longitude # NoNumber}
        IN  /\ Len(etapes) = Cardinality(both)
            /\ \A i \in both :
                  Cardinality({j \in 1..Len(etapes) : etapes[j].appartement = input[i]}) = 1
            /\ \A j \in 1..Len(etapes) :
                  /\ etapes[j].ordre = j
                  /\ etapes[j].appartement \in {input[i] : i \in both}
            /\ engine.result.totalDistance =
                  SumSeq([j \in 1..Len(etapes) |-> etapes[j].distanceDepuisPrecedent])

\* A route from a base over three units, one of which lacks its longitude
\* and the nearest of which is not the first of the list.
C8_Witness ==
    /\ engine.fn = "buildAgentRoute"
    /\ engine.base # NoPoint
    /\ Len(engine.appartements) = 3
    /\ engine.appartements[1].longitude = NoNumber /\ engine.appartements[1].latitude # NoNumber
    /\ Len(engine.result.etapes) = 2
    /\ engine.result.etapes[1].appartement = engine.appartements[3]
    /\ engine.result.totalDistance > 0

\* The balance score of a summary is the weighted sum of its totals:
\* 10, 0.5, 2 and 15 points, in half-points.
WeightedTotals(score) ==
    score.score_equilibre = 20 * score.total_chambres + score.total_surface
                            + 4 * score.total_distance + 30 * score.total_difficulte

\* C9: calculateWorkloadScore is chambres*10 + surface*0.5 + distance*2 +
\* difficulte*15 (100 for 2 rooms, 50 m2, 5 km, difficulty 3), and the
\* summaries of calculateAgentScores and those the batch simulation updates
\* carry the same weighted sum of their totals.
C9_SameWeightsEverywhere ==
    /\ engine.fn = "calculateWorkloadScore" =>
          LET u == engine.appartement
          IN  /\ engine.result = 20 * u.nombre_chambres + u.surface
                                 + 4 * u.distance_base + 30 * u.difficulte
              /\ (u.nombre_chambres = 2 /\ u.surface = 50 /\ u.distance_base = 5
                  /\ u.difficulte = 3) => engine.result = HP(100)
    /\ engine.fn = "calculateAgentScores" =>
          \A id \in DOMAIN engine.result : WeightedTotals(engine.result[id])
    /\ engine.fn = "simulate" =>
          \A id \in DOMAIN engine.result.currentScores :
              WeightedTotals(engine.result.currentScores[id])

\* The simulation added a unit to a summary that calculateAgentScores had
\* built from another unit.
C9_Witness ==
    /\ engine.fn = "simulate"
    /\ Len(engine.result.assignments) = 1
    /\ \E id \in DOMAIN engine.result.currentScores :
          /\ engine.scoreMap[id].nombre_appartements = 1
          /\ engine.result.currentScores[id].nombre_appartements = 2

\* C11: when no handler is in flight, a unit has an open history record for
\* an agent exactly when the unit is assigned to that agent.
C11_OpenRecordIffAssigned ==
    (assignPc = "idle" /\ batchPc = "idle" /\ markPc = "idle") =>
        \A u \in DOMAIN appartementsTbl, w \in AgentIds :
            (\E r \in historique :
                r.appartement_id = u /\ r.agent_id = w /\ r.date_fin = NULL)
            <=> appartementsTbl[u].agent_id = w

\* C12: the record an assignment opens carries the balance score of the
\* agent it names, that is the score calculateAgentScores gives that agent
\* over the units of the store once the pairing is written.
C12_RecordCarriesAgentBalance ==
    [][\A r \in historique' \ historique :
          r.score_equilibre =
              calculateAgentScores(SelectAgents(agentsTbl'),
                                   SelectAppartements(appartementsTbl'))[r.agent_id]
                  .score_equilibre]_vars

\* C13: a commit of the batch that writes a unit finds the unit without an
\* agent in the store.
C13_BatchWritesUnassignedOnly ==
    [][(BatchUpdate /\ appartementsTbl' # appartementsTbl) =>
          appartementsTbl[assignments[batchIdx].appartement.id].agent_id = NULL]_vars

RECURSIVE TotalOf(_, _, _)
TotalOf(list, id, attr) ==
    IF list = <<>> THEN 0
    ELSE (IF Head(list).agent_id = id THEN Head(list)[attr] ELSE 0)
         + TotalOf(Tail(list), id, attr)

\* C15: in the result of calculateAgentScores the totals of an agent are
\* the sums of the attributes of the units whose agent_id is that agent, and
\* its balance score is 10, 0.5, 2 and 15 points times those totals.
C15_ScoreOfAccumulatedTotals ==
    engine.fn = "calculateAgentScores" =>
        \A id \in DOMAIN engine.result :
            LET score == engine.result[id]
                list == engine.appartements
            IN  /\ score.agent_id = id
                /\ score.total_chambres = TotalOf(list, id, "nombre_chambres")
                /\ score.total_surface = TotalOf(list, id, "surface")
                /\ score.total_distance = TotalOf(list, id, "distance_base")
                /\ score.total_difficulte = TotalOf(list, id, "difficulte")
                /\ score.score_equilibre =
                      20 * TotalOf(list, id, "nombre_chambres") + TotalOf(list, id, "surface")
                      + 4 * TotalOf(list, id, "distance_base")
                      + 30 * TotalOf(list, id, "difficulte")

\* An agent was summarised over two units of its own.
C15_Witness ==
    /\ engine.fn = "calculateAgentScores"
    /\ "a1" \in DOMAIN engine.result
    /\ engine.result["a1"].nombre_appartements = 2
    /\ engine.result["a1"].score_equilibre = HP(190)

RECURSIVE RosterScores(_, _)
RosterScores(roster, currentScores) ==
    IF roster = <<>> THEN 0
    ELSE AgentScoreOrZero(currentScores, Head(roster).id)
         + RosterScores(Tail(roster), currentScores)

\* C17: the average suggestOptimalAgent compares with is the mean over the
\* agents of the roster of their balance score, 0 for an agent without a
\* summary: the sum it divides by the roster size is the sum of those.
C17_AverageOverRoster ==
    (engine.fn = "suggestOptimalAgent" /\ Len(engine.agents) > 0) =>
        engine.sumOfScores = RosterScores(engine.agents, engine.currentScores)

\* C18: of two agents of the roster with the same balance score, one whose
\* secteur_preference is the secteur of the unit and one whose is not, the
\* second is never returned.
C18_SectorMatchPreferred ==
    engine.fn = "suggestOptimalAgent" =>
        \A i, j \in 1..Len(engine.agents) :
            (/\ AgentScoreOrZero(engine.currentScores, engine.agents[i].id)
                  = AgentScoreOrZero(engine.currentScores, engine.agents[j].id)
             /\ engine.agents[i].secteur_preference = engine.appartement.secteur
             /\ engine.agents[j].secteur_preference # engine.appartement.secteur)
            => engine.result # engine.agents[j].id

\* C16: a click on the batch button while no unit of the view is without
\* agent and not inactive shows the nothing-to-assign message, whatever the
\* roster, and pairs and commits nothing.
C16_NothingToAssignFirst ==
    [][(handleAutoDistribute /\ Len(Unassigned(appartements)) = 0) =>
          /\ feedback' = "nothingToAssign"
          /\ UNCHANGED <<storeVars, batchVars, isAutoAssigning>>]_vars

RECURSIVE PairedTotal(_, _, _)
PairedTotal(pairs, id, attr) ==
    IF pairs = <<>> THEN 0
    ELSE (IF Head(pairs).agentId = id THEN Head(pairs).appartement[attr] ELSE 0)
         + PairedTotal(Tail(pairs), id, attr)

\* C19: when the simulation of the batch is over, every agent it has paired
\* has a simulated summary whose totals are those it started from (zero
\* without one) plus the attributes of the units paired with it, whose count
\* grew by the number of those units, and whose balance score is the
\* weighted sum of the totals.  (The simulated summaries are the objects of
\* scoreMap.)
C19_SimulationTracksPairings ==
    [][(handleAutoDistribute /\ Len(assignments') > 0) =>
          \A i \in 1..Len(assignments') :
              LET id == assignments'[i].agentId
                  before == IF id \in DOMAIN scoreMap THEN scoreMap[id] ELSE ZeroScore(id)
                  count == Cardinality({k \in 1..Len(assignments') :
                                           assignments'[k].agentId = id})
              IN  /\ id \in DOMAIN scoreMap'
                  /\ scoreMap'[id].total_chambres =
                        before.total_chambres + PairedTotal(assignments', id, "nombre_chambres")
                  /\ scoreMap'[id].total_surface =
                        before.total_surface + PairedTotal(assignments', id, "surface")
                  /\ scoreMap'[id].total_distance =
                        before.total_distance + PairedTotal(assignments', id, "distance_base")
                  /\ scoreMap'[id].total_difficulte =
                        before.total_difficulte + PairedTotal(assignments', id, "difficulte")
                  /\ scoreMap'[id].nombre_appartements = before.nombre_appartements + count
                  /\ WeightedTotals(scoreMap'[id])]_vars

\* The position of unit u in a list of units.
IndexOf(list, u) == CHOOSE i \in 1..Len(list) : list[i].id = u

\* C20: the pairings the batch returns are in non-increasing order of
\* calculateWorkloadScore, two units of equal score in the order they have in
\* the list the batch started from, and the store is written for one pairing
\* after the other in that order: a write is for the pairing batchIdx points
\* to, no pairing before it has a lower score, and batchIdx only moves on by
\* one.
C20_DescendingOrderKept ==
    [][/\ (handleAutoDistribute /\ Len(assignments') > 0) =>
             \A i \in 1..Len(assignments'), j \in 1..Len(assignments') :
                 i < j =>
                    LET ui == assignments'[i].appartement
                        uj == assignments'[j].appartement
                    IN  /\ calculateWorkloadScore(ui) >= calculateWorkloadScore(uj)
                        /\ calculateWorkloadScore(ui) = calculateWorkloadScore(uj)
                              => IndexOf(appartements, ui.id) < IndexOf(appartements, uj.id)
       /\ (appartementsTbl' # appartementsTbl) =>
             /\ batchPc = "update"
             /\ \A u \in DOMAIN appartementsTbl :
                   appartementsTbl'[u] # appartementsTbl[u]
                      => u = assignments[batchIdx].appartement.id
             /\ \A k \in 1..(batchIdx - 1) :
                   calculateWorkloadScore(assignments[k].appartement)
                      >= calculateWorkloadScore(assignments[batchIdx].appartement)
       /\ (batchPc # "idle" /\ batchPc' # "idle" /\ batchIdx' # batchIdx) =>
             /\ batchIdx' = batchIdx + 1
             /\ assignments' = assignments]_vars

\* Two pairings of units of equal score, in the order of the list, the
\* second one being written after the first.
C20_Witness ==
    /\ batchPc = "close"
    /\ batchIdx = 2
    /\ Len(assignments) = 2
    /\ assignments[1].appartement.id = "u1"
    /\ assignments[2].appartement.id = "u3"
    /\ appartementsTbl["u1"].agent_id = assignments[1].agentId
    /\ appartementsTbl["u3"].agent_id = assignments[2].agentId

\* Two pairings in another order than that of the list: the unit of higher
\* score first.
C20_WitnessSorted ==
    /\ batchPc = "close"
    /\ batchIdx = 2
    /\ Len(assignments) = 2
    /\ assignments[1].appartement.id = "u2"
    /\ assignments[2].appartement.id = "u1"

\* C21: a click on the batch button with a roster that is not empty and at
\* least one unit without agent and not inactive pairs every such unit, each
\* once: the pairing list has as many entries as there are candidates, and
\* the message that no assignment could be determined is not shown.
C21_EveryCandidatePaired ==
    [][(handleAutoDistribute /\ Len(agents) > 0 /\ Len(Unassigned(appartements)) > 0) =>
          /\ feedback' # "noOptimal"
          /\ Len(assignments') = Len(Unassigned(appartements))
          /\ \A i \in 1..Len(appartements) :
                (appartements[i].agent_id = NULL /\ appartements[i].statut # "inactif") =>
                   Cardinality({k \in 1..Len(assignments') :
                                   assignments'[k].appartement = appartements[i]}) = 1]_vars

\* A batch that has paired two candidates and commits the first.
C21_Witness ==
    /\ batchPc = "update"
    /\ batchIdx = 1
    /\ Len(assignments) = 2
    /\ Len(Unassigned(appartements)) = 2

\* C22: calculateEquilibreGlobal returns 0 for scores that are not empty and
\* are all 0 (their mean is not positive).
C22_ZeroForZeroMean ==
    (/\ engine.fn = "calculateEquilibreGlobal"
     /\ Len(engine.scoreValues) > 0
     /\ \A i \in 1..Len(engine.scoreValues) : engine.scoreValues[i] = FZero)
        => engine.result = FZero

\* The current point of buildAgentRoute when step j is chosen: base before
\* the first step, the point of the step before otherwise.
PointBefore(base, etapes, j) ==
    IF j = 1 THEN base ELSE <<PointOf(etapes[j - 1].appartement)>>

\* C23: for every step of a route that is chosen while there is a current
\* point, the distanceDepuisPrecedent of the step is the distance from the
\* current point to the unit of the step, no unit visited later is nearer to
\* the current point, and a unit visited later at the same distance comes
\* later in the input list (the id of a unit of the lists is its position).
C23_NearestNeighbourSteps ==
    engine.fn = "buildAgentRoute" =>
        LET etapes == engine.result.etapes
        IN  \A j \in 1..Len(etapes) :
               LET cur == PointBefore(engine.base, etapes, j)
                   leg == etapes[j].distanceDepuisPrecedent
               IN  cur # NoPoint =>
                      /\ leg = calculateDistanceKm(cur[1], PointOf(etapes[j].appartement))
                      /\ \A k \in (j + 1)..Len(etapes) :
                            LET d == calculateDistanceKm(cur[1], PointOf(etapes[k].appartement))
                            IN  /\ leg <= d
                                /\ leg = d => etapes[j].appartement.id < etapes[k].appartement.id

\* A route from a base with two units at the same distance on either side of
\* it, and a third unit that is nearer although it is last in the list.
C23_Witness ==
    /\ engine.fn = "buildAgentRoute"
    /\ engine.base # NoPoint
    /\ Len(engine.result.etapes) = 3
    /\ engine.result.etapes[1].appartement.id = 3
    /\ engine.result.etapes[2].appartement.id = 1
    /\ engine.result.etapes[2].distanceDepuisPrecedent > 0
    /\ engine.result.etapes[3].appartement.longitude # engine.result.etapes[2].appartement.longitude
    /\ calculateDistanceKm(PointOf(engine.result.etapes[1].appartement),
                           PointOf(engine.result.etapes[2].appartement))
         = calculateDistanceKm(PointOf(engine.result.etapes[1].appartement),
                               PointOf(engine.result.etapes[3].appartement))

\* C24: without a base the first step of the route is the first unit of the
\* input that has both coordinates and its distanceDepuisPrecedent is 0; with
\* a base the first step is a unit no other unit with coordinates is nearer
\* to the base than, and its distanceDepuisPrecedent is its distance to the
\* base; when no unit has both coordinates the route has no step and
\* totalDistance 0.
C24_StartRule ==
    engine.fn = "buildAgentRoute" =>
        LET visitables == Visitables(engine.appartements)
            etapes == engine.result.etapes
        IN  IF Len(visitables) = 0
            THEN etapes = <<>> /\ engine.result.totalDistance = 0
            ELSE /\ Len(etapes) > 0
                 /\ IF engine.base = NoPoint
                    THEN /\ etapes[1].appartement = visitables[1]
                         /\ etapes[1].distanceDepuisPrecedent = 0
                    ELSE /\ etapes[1].distanceDepuisPrecedent =
                               calculateDistanceKm(engine.base[1], PointOf(etapes[1].appartement))
                         /\ \A i \in 1..Len(visitables) :
                               etapes[1].distanceDepuisPrecedent
                                  <= calculateDistanceKm(engine.base[1], PointOf(visitables[i]))

\* A route without base over a list whose first unit lacks a coordinate and
\* whose first unit with coordinates is not at longitude 0.
C24_Witness ==
    /\ engine.fn = "buildAgentRoute"
    /\ engine.base = NoPoint
    /\ Len(engine.appartements) = 3
    /\ engine.appartements[1].latitude = NoNumber
    /\ Len(engine.result.etapes) = 2
    /\ engine.result.etapes[1].appartement = engine.appartements[2]
    /\ engine.result.etapes[1].appartement.longitude # <<0>>
    /\ engine.result.etapes[1].distanceDepuisPrecedent = 0
    /\ engine.result.totalDistance > 0

(***************************************************************************)
(* The two loops of the engine, one iteration per step: the while loop of  *)
(* buildAgentRoute and the forEach of the batch simulation.  engine holds  *)
(* the locals of the loop that is running.                                 *)
(***************************************************************************)

\* buildAgentRoute up to its while loop (returning at once when no unit has
\* both coordinates).
RouteStart ==
    /\ engine.fn = "none"
    /\ \E n \in 0..MaxRouteUnits, base \in {NoPoint, <<[latitude |-> 0, longitude |-> 1]>>} :
         \E cs \in [1..n -> Coordinates] :
            LET list == [i \in 1..n |-> RouteUnit(i, cs[i])]
            IN  engine' = [fn |-> "buildAgentRoute.while", appartements |-> list,
                           base |-> base, remaining |-> Visitables(list),
                           currentPoint |-> base, ordre |-> 1,
                           totalDistance |-> 0, etapes |-> <<>>, iterations |-> 0]
    /\ UNCHANGED <<storeVars, ops, viewVars, assignVars, batchVars, histVars>>

\* RouteIterate leaving remaining as it is.
RouteIterateNoSplice ==
    /\ engine.fn = "buildAgentRoute.while"
    /\ Len(engine.remaining) > 0
    /\ engine' = [engine EXCEPT !.ordre = @ + 1, !.iterations = @ + 1]
    /\ UNCHANGED <<storeVars, ops, viewVars, assignVars, batchVars, histVars>>

\* One iteration of while (remaining.length > 0).
RouteIterate ==
    /\ engine.fn = "buildAgentRoute.while"
    /\ Len(engine.remaining) > 0
    /\ LET bestIndex == BestLoop(engine.remaining, engine.currentPoint, 1, <<1, Infinity>>)
           next == engine.remaining[bestIndex]
           leg == DistanceFrom(engine.currentPoint, next)
       IN  engine' = [engine EXCEPT
                        !.remaining = Splice(engine.remaining, bestIndex),
                        !.totalDistance = @ + leg,
                        !.etapes = Append(@, [appartement |-> next, ordre |-> engine.ordre,
                                              distanceDepuisPrecedent |-> leg]),
                        !.currentPoint = <<PointOf(next)>>,
                        !.ordre = @ + 1,
                        !.iterations = @ + 1]
    /\ UNCHANGED <<storeVars, ops, viewVars, assignVars, batchVars, histVars>>

\* handleAutoDistribute from the sort to the forEach; considered lists the
\* units the callback has been called with.
SimulateStart ==
    /\ engine.fn = "none"
    /\ \E roster \in Rosters, loaded \in Rosters, ids \in {<<"u1">>, <<"u2">>, <<"u1", "u2">>} :
         \E dyns \in [1..Len(ids) -> [agent_id : AgentIds \cup {NULL},
                                      statut : {"disponible", "assigne"}]] :
            LET list == UnitListOf(ids, dyns)
            IN  engine' = [fn |-> "sorted.forEach", agents |-> roster, appartements |-> list,
                           sorted |-> SortDesc(Unassigned(list)), i |-> 1,
                           assignments |-> <<>>,
                           currentScores |-> LoadedScores(loaded, list),
                           considered |-> <<>>]
    /\ UNCHANGED <<storeVars, ops, viewVars, assignVars, batchVars, histVars>>

\* One call of the callback of sorted.forEach.
SimulateIterate ==
    /\ engine.fn = "sorted.forEach"
    /\ engine.i <= Len(engine.sorted)
    /\ LET appartement == engine.sorted[engine.i]
           agentId == suggestOptimalAgent(appartement, engine.agents, engine.currentScores)
       IN  engine' = [engine EXCEPT
                        !.i = @ + 1,
                        !.considered = Append(@, appartement),
                        !.assignments =
                            IF agentId = NULL THEN @
                            ELSE Append(@, [appartement |-> appartement, agentId |-> agentId]),
                        !.currentScores =
                            IF agentId = NULL THEN @
                            ELSE SimulateAdd(@, agentId, appartement)]
    /\ UNCHANGED <<storeVars, ops, viewVars, assignVars, batchVars, histVars>>

NextLoop ==
    \/ RouteStart
    \/ RouteIterate
    \/ SimulateStart
    \/ SimulateIterate

\* A loop that has an iteration to run runs it: the code is sequential and
\* awaits nothing inside either loop.
SpecLoop == InitFn /\ [][NextLoop]_vars /\ WF_vars(RouteIterate) /\ WF_vars(SimulateIterate)

\* The while loop of buildAgentRoute has ended.
RouteEnded == engine.fn = "buildAgentRoute.while" /\ Len(engine.remaining) = 0

\* The forEach of the simulation has ended.
SimulateEnded == engine.fn = "sorted.forEach" /\ engine.i > Len(engine.sorted)

\* C25: the loops of the engine end.  Each iteration of the while loop of
\* buildAgentRoute takes one unit out of remaining, so that the iterations
\* run and the units remaining always add up to the number k of units with
\* both coordinates, and the loop ends, after k iterations; the forEach of
\* the simulation has been called with the first i - 1 candidates, ends, and
\* has then been called with every candidate exactly once.
C25_LoopsTerminate ==
    /\ [](engine.fn = "buildAgentRoute.while" =>
            engine.iterations + Len(engine.remaining) = Len(Visitables(engine.appartements)))
    /\ [](engine.fn = "sorted.forEach" =>
            engine.considered = SubSeq(engine.sorted, 1, engine.i - 1))
    /\ [](SimulateEnded =>
            \A k \in 1..Len(engine.appartements) :
               LET appt == engine.appartements[k]
               IN  Cardinality({j \in 1..Len(engine.considered) : engine.considered[j] = appt})
                   = IF appt.agent_id = NULL /\ appt.statut # "inactif" THEN 1 ELSE 0)
    /\ (engine.fn = "buildAgentRoute.while") ~> RouteEnded
    /\ (engine.fn = "sorted.forEach") ~> SimulateEnded

\* A route loop that has ended after three iterations, and not in the order
\* of the list.
C25_Witness ==
    /\ RouteEnded
    /\ engine.iterations = 3
    /\ Len(engine.etapes) = 3
    /\ engine.etapes[1].appartement.id # 1

\* C26: once updateAssignment has returned failure for the pairing batchIdx
\* of a batch, the batch waits for its reload only: the pairings before
\* batchIdx, and they alone, have been counted as successes and the store
\* still holds their agents, the error message is shown, no later step of
\* the batch writes the store, and the batch does not show its success
\* message.
C26_BatchStopsAtFailure ==
    /\ [](encounteredError =>
            /\ batchPc = "reload"
            /\ feedback = "batchError"
            /\ successCount = batchIdx - 1
            /\ \A k \in 1..(batchIdx - 1) :
                  appartementsTbl[assignments[k].appartement.id].agent_id
                     = assignments[k].agentId)
    /\ [][encounteredError =>
            /\ UNCHANGED storeVars
            /\ feedback' # "batchSuccess"
            /\ batchPc' = "idle"]_vars

\* The second pairing of a batch has failed after the first was committed.
C26_Witness ==
    /\ encounteredError
    /\ batchIdx = 2
    /\ successCount = 1
    /\ Len(assignments) = 2

\* C27: a first call of updateAssignment (from the select of a unit or
\* from the batch) that names an agent the store has no row of leaves the
\* store as it is, rows of appartements and of historique_affectations
\* alike, and updateAssignment returns failure: the error message is shown
\* and no call on the history follows.
C27_RejectedUpdateWritesNothing ==
    [][/\ \A u \in UnitIds, a \in AgentIds :
             (handleAssignAgent(u, a) /\ a \notin agentsTbl) =>
                /\ UNCHANGED storeVars
                /\ assignPc' = "idle"
                /\ feedback' = "assignError"
       /\ (BatchUpdate /\ assignments[batchIdx].agentId \notin agentsTbl) =>
             /\ UNCHANGED storeVars
             /\ batchPc' = "reload"
             /\ encounteredError']_vars

\* The select of a unit has been set to an agent of the roster whose row
\* the store has no more, and the error message is shown.
C27_Witness ==
    /\ feedback = "assignError"
    /\ assignPc = "idle"
    /\ ops = 2
    /\ \E i \in 1..Len(agents) : agents[i].id \notin agentsTbl
    /\ historique = {}

\* The store call a batch awaits returns: batchPc names the call awaited,
\* and the batch goes on to another one or ends.  Among the steps of
\* NextBatch these are the steps BatchUpdate, BatchClose, BatchInsert and
\* BatchReload, one of which is enabled whenever batchPc is not "idle".
StoreCallReturns ==
    /\ batchPc # "idle"
    /\ batchPc' \in {"update", "close", "insert", "reload", "idle"}
    /\ batchPc' # batchPc

\* The batch alone when every store call it awaits returns.
SpecBatchLive == InitBatch /\ [][NextBatch]_vars /\ WF_batchPc(StoreCallReturns)

\* C28: a batch that has set isAutoAssigning leads to isAutoAssigning being
\* false again, whatever its commits do, and no batch is started while
\* isAutoAssigning is true.
C28_BatchLeavesInProgress ==
    /\ isAutoAssigning ~> ~isAutoAssigning
    /\ [][handleAutoDistribute => ~isAutoAssigning]_vars
    /\ [](isAutoAssigning <=> batchPc # "idle")

\* A batch whose second commit failed has ended and the button is enabled
\* again.
C28_Witness ==
    /\ ~isAutoAssigning
    /\ batchPc = "idle"
    /\ feedback = "batchError"
    /\ ops = 1
    /\ \E u \in DOMAIN appartementsTbl : \E r \in historique :
          r.id = nextHistId /\ r.appartement_id = u /\ nextHistId > Cardinality(OpenRecords(appartementsTbl)) - 1

\* C29: in every state of the system a unit of the store with an agent has
\* the statut 'assigne', and for the roster of the store and for the roster
\* of the view the summaries the dashboard computes from the units of statut
\* 'assigne' are those the list computes from the units with an agent.
C29_AgentImpliesAssigne ==
    /\ \A u \in DOMAIN appartementsTbl :
          appartementsTbl[u].agent_id # NULL => appartementsTbl[u].statut = "assigne"
    /\ \A roster \in {SelectAgents(agentsTbl), agents} :
          DashboardScores(roster, appartementsTbl)
             = LoadedScores(roster, SelectAppartements(appartementsTbl))

\* The unit that was inactive has been given an agent and has the statut
\* 'assigne'.
C29_Witness ==
    /\ "u2" \in DOMAIN appartementsTbl
    /\ appartementsTbl["u2"].agent_id # NULL
    /\ appartementsTbl["u2"].statut = "assigne"
    /\ assignPc = "idle"

(***************************************************************************)
(* The engine on the heap.  calculateAgentScores and suggestOptimalAgent   *)
(* get references: to the array of agents, to the array of units, to the   *)
(* Map of summaries.  A heap holds the objects by kind, a reference is the *)
(* index of the object in the sequence of its kind: agents and             *)
(* appartements are the rows, arrays are sequences of references, maps are *)
(* functions from agent id to the reference of a summary.  The operators   *)
(* give the heap after the call and the value returned; they write the     *)
(* heap where the source assigns, and nowhere else.                        *)
(***************************************************************************)

\* The number of calls made on one heap.
MaxCalls == 2

\* The arrays of a heap: the rosters <<a1, a2>>, <<a2>> and <<a1, a1>> (an
\* id twice), then the unit lists <<u1, u2>> and <<u2>>.
RosterArrayRefs == {1, 2, 3}

UnitArrayRefs == {4, 5}

\* A heap with the two agents, the two units with the agents dyns gives
\* them, the arrays, and no map or summary yet.
StartHeap(dyns) ==
    [agents |-> <<AgentRow("a1"), AgentRow("a2")>>,
     appartements |-> UnitListOf(<<"u1", "u2">>, dyns),
     arrays |-> << <<1, 2>>, <<2>>, <<1, 1>>, <<1, 2>>, <<2>> >>,
     summaries |-> <<>>,
     maps |-> <<>>]

\* The array of agents behind a reference, as the rows it holds.
RosterAt(heap, r) == [i \in 1..Len(heap.arrays[r]) |-> heap.agents[heap.arrays[r][i]]]

\* The array of units behind a reference, as the rows it holds.
UnitsAt(heap, l) == [i \in 1..Len(heap.arrays[l]) |-> heap.appartements[heap.arrays[l][i]]]

\* The Map behind a reference, as the summaries its values point to.
MapAt(heap, m) == [id \in DOMAIN heap.maps[m] |-> heap.summaries[heap.maps[m][id]]]

\* SetZeroOnHeap taking the summary the heap already holds for the agent,
\* when there is one, instead of a new object.
RECURSIVE SetZeroOnHeapReusing(_, _, _, _)
SetZeroOnHeapReusing(heap, m, refs, i) ==
    IF i > Len(refs) THEN heap
    ELSE LET agent == heap.agents[refs[i]]
             old == {k \in 1..Len(heap.summaries) : heap.summaries[k].agent_id = agent.id}
         IN  IF old # {}
             THEN SetZeroOnHeapReusing(
                      [heap EXCEPT !.maps[m] = (agent.id :> (CHOOSE k \in old : TRUE)) @@ @],
                      m, refs, i + 1)
             ELSE SetZeroOnHeapReusing(
                      [heap EXCEPT !.summaries = Append(@, ZeroScore(agent.id)),
                                   !.maps[m] = (agent.id :> (Len(heap.summaries) + 1)) @@ @],
                      m, refs, i + 1)

\* agents.forEach(agent => scores.set(agent.id, {...})) from index i on: a
\* new summary object per agent of the array, set under the id of the agent
\* in the map m.
RECURSIVE SetZeroOnHeap(_, _, _, _)
SetZeroOnHeap(heap, m, refs, i) ==
    IF i > Len(refs) THEN heap
    ELSE LET agent == heap.agents[refs[i]]
         IN  SetZeroOnHeap(
                 [heap EXCEPT !.summaries = Append(@, ZeroScore(agent.id)),
                              !.maps[m] = (agent.id :> (Len(heap.summaries) + 1)) @@ @],
                 m, refs, i + 1)

\* appartements.forEach(appt => ...) from index j on: the summary the map m
\* holds for the agent of the unit is written.
RECURSIVE AccumulateOnHeap(_, _, _, _)
AccumulateOnHeap(heap, m, refs, j) ==
    IF j > Len(refs) THEN heap
    ELSE LET appt == heap.appartements[refs[j]]
         IN  AccumulateOnHeap(
                 IF appt.agent_id # NULL /\ appt.agent_id \in DOMAIN heap.maps[m]
                 THEN [heap EXCEPT !.summaries[heap.maps[m][appt.agent_id]] =
                         [@ EXCEPT !.total_chambres = @ + appt.nombre_chambres,
                                   !.total_surface = @ + appt.surface,
                                   !.total_distance = @ + appt.distance_base,
                                   !.total_difficulte = @ + appt.difficulte,
                                   !.nombre_appartements = @ + 1,
                                   !.score_equilibre = calculateWorkloadScore(appt)]]
                 ELSE heap,
                 m, refs, j + 1)

\* scores.forEach(score => score.score_equilibre = ...): the values of the
\* map m are written.
FinalPassOnHeap(heap, m) ==
    [heap EXCEPT !.summaries =
        [k \in 1..Len(heap.summaries) |->
            IF \E id \in DOMAIN heap.maps[m] : heap.maps[m][id] = k
            THEN [heap.summaries[k] EXCEPT !.score_equilibre = ScoreOfTotals(heap.summaries[k])]
            ELSE heap.summaries[k]]]

\* calculateAgentScores(agents, appartements) on references: new Map(), the
\* three loops, return scores.
calculateAgentScoresOnHeap(heap, r, l) ==
    LET m == Len(heap.maps) + 1
        created == [heap EXCEPT !.maps = Append(@, <<>>)]
        zeroed == SetZeroOnHeap(created, m, heap.arrays[r], 1)
        summed == AccumulateOnHeap(zeroed, m, heap.arrays[l], 1)
    IN  [heap |-> FinalPassOnHeap(summed, m), result |-> m]

\* suggestOptimalAgent(appartement, agents, currentScores) on references:
\* the function reads its arguments and assigns to its locals only.
suggestOptimalAgentOnHeap(heap, u, r, m) ==
    [heap |-> heap,
     result |-> suggestOptimalAgent(heap.appartements[u], RosterAt(heap, r), MapAt(heap, m))]

\* A heap is set up.
HeapStart ==
    /\ engine.fn = "none"
    /\ \E dyns \in [1..2 -> [agent_id : AgentIds \cup {NULL}, statut : {"assigne"}]] :
         engine' = [fn |-> "heap", heap |-> StartHeap(dyns), calls |-> 0,
                    call |-> [fn |-> "none"]]
    /\ UNCHANGED <<storeVars, ops, viewVars, assignVars, batchVars, histVars>>

\* calculateAgentScores is called with an array of agents and an array of
\* units of the heap.
HeapCalculate ==
    /\ engine.fn = "heap"
    /\ engine.calls < MaxCalls
    /\ \E r \in RosterArrayRefs, l \in UnitArrayRefs :
         LET out == calculateAgentScoresOnHeap(engine.heap, r, l)
         IN  engine' = [fn |-> "heap", heap |-> out.heap, calls |-> engine.calls + 1,
                        call |-> [fn |-> "calculateAgentScores", agents |-> r,
                                  appartements |-> l, result |-> out.result]]
    /\ UNCHANGED <<storeVars, ops, viewVars, assignVars, batchVars, histVars>>

\* suggestOptimalAgent is called with a unit, an array of agents and a Map
\* of the heap.
HeapSuggest ==
    /\ engine.fn = "heap"
    /\ engine.calls < MaxCalls
    /\ \E u \in 1..Len(engine.heap.appartements), r \in RosterArrayRefs,
          m \in 1..Len(engine.heap.maps) :
         LET out == suggestOptimalAgentOnHeap(engine.heap, u, r, m)
         IN  engine' = [fn |-> "heap", heap |-> out.heap, calls |-> engine.calls + 1,
                        call |-> [fn |-> "suggestOptimalAgent", appartement |-> u,
                                  agents |-> r, currentScores |-> m,
                                  result |-> out.result]]
    /\ UNCHANGED <<storeVars, ops, viewVars, assignVars, batchVars, histVars>>

NextHeap ==
    \/ HeapStart
    \/ HeapCalculate
    \/ HeapSuggest

SpecHeap == InitFn /\ [][NextHeap]_vars

\* C30: a call of suggestOptimalAgent leaves the heap as it is and a second
\* call with the same arguments returns the same agent; a call of
\* calculateAgentScores leaves every agent, unit, array, Map and summary
\* that existed before it as it was, returns a Map that did not exist
\* before whose values are summaries that did not exist before, holding the
\* summaries of calculateAgentScores for the rows behind the arguments, and
\* a second call with the same arguments returns a Map of equal summaries.
C30_EngineCallsArePure ==
    [][(engine.fn = "heap" /\ engine'.fn = "heap" /\ engine'.calls = engine.calls + 1) =>
          LET before == engine.heap
              after == engine'.heap
              call == engine'.call
          IN  /\ call.fn = "suggestOptimalAgent" =>
                    /\ after = before
                    /\ suggestOptimalAgentOnHeap(after, call.appartement, call.agents,
                                                 call.currentScores).result = call.result
              /\ call.fn = "calculateAgentScores" =>
                    LET again == calculateAgentScoresOnHeap(after, call.agents, call.appartements)
                    IN  /\ after.agents = before.agents
                        /\ after.appartements = before.appartements
                        /\ after.arrays = before.arrays
                        /\ SubSeq(after.summaries, 1, Len(before.summaries)) = before.summaries
                        /\ SubSeq(after.maps, 1, Len(before.maps)) = before.maps
                        /\ call.result = Len(before.maps) + 1
                        /\ \A id \in DOMAIN after.maps[call.result] :
                              after.maps[call.result][id] > Len(before.summaries)
                        /\ MapAt(after, call.result)
                              = calculateAgentScores(RosterAt(before, call.agents),
                                                     UnitsAt(before, call.appartements))
                        /\ MapAt(again.heap, again.result) = MapAt(after, call.result)]_vars

\* calculateAgentScores has been called twice on a heap whose units have
\* agents: the heap holds two Maps and the summaries of both, with units
\* counted in each.
C30_Witness ==
    /\ engine.fn = "heap"
    /\ engine.calls = 2
    /\ engine.call.fn = "calculateAgentScores"
    /\ Len(engine.heap.maps) = 2
    /\ \E id \in DOMAIN engine.heap.maps[1] \cap DOMAIN engine.heap.maps[2] :
          /\ engine.heap.maps[1][id] # engine.heap.maps[2][id]
          /\ MapAt(engine.heap, 1)[id].nombre_appartements > 0
          /\ MapAt(engine.heap, 2)[id].nombre_appartements > 0

====
